---------------------------- MODULE Spec2Model ----------------------------
(***************************************************************************)
(* A model of SpacePartitioner (src/src/partition.cpp): construction       *)
(* (bounding box, closure planes, classification into parallel groups),    *)
(* computeCells (slab cells, non-parallel planes, triple intersections,    *)
(* cell assembly), and the pure helpers arePlanesParallel,                 *)
(* computePlaneIntersection and computeDistance.                           *)
(*                                                                         *)
(* Numbers.  Plane coefficients and vertex coordinates of the inputs are   *)
(* small integers.  Values the code computes in float are modelled as      *)
(* extended rationals with a sign bit: finite num/den, +inf, -inf and NaN, *)
(* with the IEEE-754 rules for 0*inf, inf-inf, 1/0 and comparisons with    *)
(* NaN.  Finite arithmetic is exact (no rounding).  glm::normalize is the  *)
(* one place that needs a square root; it is computed in fixed point at    *)
(* the resolution of the tolerance it is compared with.                    *)
(***************************************************************************)
EXTENDS Integers, Sequences, FiniteSets, TLC

VARIABLES
    originalPlanes,     \* SpacePartitioner::originalPlanes (input + closure)
    parallelGroups,     \* SpacePartitioner::parallelGroups
    nonParallelPlanes,  \* SpacePartitioner::nonParallelPlanes
    cells,              \* SpacePartitioner::cells
    calls,              \* number of computeCells() invocations so far
    firstResult,        \* what the first computeCells() returned
    argPlanes,          \* argument of a direct findIntersectionVertices call
    fivDone,            \* the direct call has returned
    p1, p2,             \* arguments of arePlanesParallel
    parResult           \* results of the arePlanesParallel calls

vars == <<originalPlanes, parallelGroups, nonParallelPlanes, cells, calls,
          firstResult, argPlanes, fivDone, p1, p2, parResult>>

----------------------------------------------------------------------------
(* Bounds of the model *)

\* plane coefficients of the arePlanesParallel arguments range over -MaxCoef..MaxCoef
MaxCoef == 2
\* at most MaxInputPlanes contour planes are handed to the constructor
MaxInputPlanes == 3
\* computeCells() is invoked at most MaxCalls times on one instance
MaxCalls == 2

(* Program constants *)

\* 0.0001f, the tolerance of glm::epsilonEqual in arePlanesParallel, as 1/EpsilonInv
EpsilonInv == 10000
\* 0.0001f, the tolerance of the validity test in findIntersectionVertices
DistEpsilonInv == 10000
\* float size = 100.0f in createSlabCell
SlabSize == 100

----------------------------------------------------------------------------
(* Integer helpers *)

Abs(n) == IF n < 0 THEN -n ELSE n

RECURSIVE Gcd(_, _)
Gcd(m, n) == IF n = 0 THEN m ELSE Gcd(n, m % n)

\* floor of the square root, by bisection on lo*lo <= n < hi*hi
RECURSIVE ISqrtIn(_, _, _)
ISqrtIn(n, lo, hi) ==
    IF hi - lo <= 1 THEN lo
    ELSE LET mid == (lo + hi) \div 2
         IN  IF mid * mid <= n THEN ISqrtIn(n, mid, hi) ELSE ISqrtIn(n, lo, mid)

ISqrt(n) == ISqrtIn(n, 0, 46341)

Range(s) == {s[i] : i \in 1..Len(s)}

RECURSIVE Concat(_)
Concat(ss) == IF ss = <<>> THEN <<>> ELSE Head(ss) \o Concat(Tail(ss))

----------------------------------------------------------------------------
(* float: extended rationals with a sign bit *)

NaN == [k |-> "nan", num |-> 0, den |-> 0, neg |-> FALSE]
Inf(neg) == [k |-> "inf", num |-> 0, den |-> 0, neg |-> neg]

\* the finite value n/d (d > 0), reduced; neg is the sign bit, which a zero keeps
Fin(n, d, neg) ==
    LET g == Gcd(Abs(n), d)
    IN  [k |-> "fin", num |-> n \div g, den |-> d \div g,
         neg |-> IF n = 0 THEN neg ELSE n < 0]

\* an integer literal or an integer-valued input
F(n) == Fin(n, 1, FALSE)

IsZero(x) == x.k = "fin" /\ x.num = 0

XNeg(x) ==
    CASE x.k = "nan" -> NaN
      [] x.k = "inf" -> Inf(~x.neg)
      [] OTHER       -> Fin(-x.num, x.den, ~x.neg)

XMul(x, y) ==
    CASE x.k = "nan" \/ y.k = "nan" -> NaN
      [] x.k = "inf" \/ y.k = "inf" ->
            IF IsZero(x) \/ IsZero(y) THEN NaN ELSE Inf(x.neg # y.neg)
      [] OTHER -> Fin(x.num * y.num, x.den * y.den, x.neg # y.neg)

XAdd(x, y) ==
    CASE x.k = "nan" \/ y.k = "nan" -> NaN
      [] x.k = "inf" /\ y.k = "inf" -> IF x.neg = y.neg THEN x ELSE NaN
      [] x.k = "inf" -> x
      [] y.k = "inf" -> y
      [] OTHER ->
            \* an exact cancellation gives +0; -0 + -0 gives -0
            Fin(x.num * y.den + y.num * x.den, x.den * y.den,
                IsZero(x) /\ IsZero(y) /\ x.neg /\ y.neg)

XSub(x, y) == XAdd(x, XNeg(y))

\* 1.0f / x
XRecip(x) ==
    CASE x.k = "nan" -> NaN
      [] x.k = "inf" -> Fin(0, 1, x.neg)
      [] IsZero(x)   -> Inf(x.neg)
      [] OTHER       -> IF x.num < 0 THEN Fin(-x.den, -x.num, TRUE)
                                     ELSE Fin(x.den, x.num, FALSE)

\* x > 1/inv  (false when x is NaN)
XGtEps(x, inv) ==
    CASE x.k = "nan" -> FALSE
      [] x.k = "inf" -> ~x.neg
      [] OTHER       -> x.num * inv > x.den

----------------------------------------------------------------------------
(* Plane, Vertex, ContourPlane *)

Plane(a, b, c, d) == [a |-> a, b |-> b, c |-> c, d |-> d]

\* Vertex(x, y, z): a position and the (initially empty) associatedPlanes
Vertex(x, y, z) == [x |-> x, y |-> y, z |-> z, associatedPlanes |-> <<>>]

ContourPlane(plane, vertices) == [plane |-> plane, vertices |-> vertices]

----------------------------------------------------------------------------
(* arePlanesParallel *)

Dot3(p) == p.a * p.a + p.b * p.b + p.c * p.c

\* the same without glm::abs: the component keeps its sign
SignedNormalized(x, l2) ==
    (IF x < 0 THEN -1 ELSE 1) * ISqrt((x * x * EpsilonInv * EpsilonInv) \div l2)

\* glm::abs(glm::normalize(n)) of one component x of a normal of squared
\* length l2 > 0, in units of the tolerance: floor(|x| / sqrt(l2) * EpsilonInv)
AbsNormalized(x, l2) == ISqrt((x * x * EpsilonInv * EpsilonInv) \div l2)

\* glm::epsilonEqual(x, y, 0.0001f): abs(x - y) < epsilon, in units of the tolerance
EpsilonEqual(x, y) == Abs(x - y) < 1

\* a zero normal normalizes to NaN, and epsilonEqual is false on NaN
ArePlanesParallel(q1, q2) ==
    LET l1 == Dot3(q1)
        l2 == Dot3(q2)
    IN  /\ l1 # 0
        /\ l2 # 0
        /\ EpsilonEqual(AbsNormalized(q1.a, l1), AbsNormalized(q2.a, l2))
        /\ EpsilonEqual(AbsNormalized(q1.b, l1), AbsNormalized(q2.b, l2))
        /\ EpsilonEqual(AbsNormalized(q1.c, l1), AbsNormalized(q2.c, l2))

----------------------------------------------------------------------------
(* Construction: computeTightBoundingBox, addBoundingBoxPlanes, classifyPlanes *)

MinOf(S) == CHOOSE m \in S : \A n \in S : m <= n
MaxOf(S) == CHOOSE m \in S : \A n \in S : n <= m

\* every vertex of every contour plane
AllVertices(planes) ==
    UNION {Range(planes[i].vertices) : i \in 1..Len(planes)}

\* The component-wise min and max over all contour vertices, then expanded
\* about the center: min = center - 2*extent, max = center + 2*extent.
\* The inputs of the model hold at least one vertex and have even coordinates,
\* so that the center (max + min) * 0.5 is an integer.
ComputeTightBoundingBox(planes) ==
    LET V    == AllVertices(planes)
        minx == MinOf({v.x : v \in V})
        miny == MinOf({v.y : v \in V})
        minz == MinOf({v.z : v \in V})
        maxx == MaxOf({v.x : v \in V})
        maxy == MaxOf({v.y : v \in V})
        maxz == MaxOf({v.z : v \in V})
        cx   == (maxx + minx) \div 2
        cy   == (maxy + miny) \div 2
        cz   == (maxz + minz) \div 2
        ex   == maxx - cx
        ey   == maxy - cy
        ez   == maxz - cz
    IN  [min |-> [x |-> cx - ex * 2, y |-> cy - ey * 2, z |-> cz - ez * 2],
         max |-> [x |-> cx + ex * 2, y |-> cy + ey * 2, z |-> cz + ez * 2]]

\* the six closure planes, each with its four corner vertices
BoxPlanes(bbox) ==
    LET mn == bbox.min
        mx == bbox.max
        XQuad(x) == << Vertex(x, mn.y, mn.z), Vertex(x, mx.y, mn.z),
                       Vertex(x, mx.y, mx.z), Vertex(x, mn.y, mx.z) >>
        YQuad(y) == << Vertex(mn.x, y, mn.z), Vertex(mx.x, y, mn.z),
                       Vertex(mx.x, y, mx.z), Vertex(mn.x, y, mx.z) >>
        ZQuad(z) == << Vertex(mn.x, mn.y, z), Vertex(mx.x, mn.y, z),
                       Vertex(mx.x, mx.y, z), Vertex(mn.x, mx.y, z) >>
    IN  << ContourPlane(Plane(1, 0, 0, -mn.x), XQuad(mn.x)),
           ContourPlane(Plane(-1, 0, 0, mx.x), XQuad(mx.x)),
           ContourPlane(Plane(0, 1, 0, -mn.y), YQuad(mn.y)),
           ContourPlane(Plane(0, -1, 0, mx.y), YQuad(mx.y)),
           ContourPlane(Plane(0, 0, 1, -mn.z), ZQuad(mn.z)),
           ContourPlane(Plane(0, 0, -1, mx.z), ZQuad(mx.z)) >>

\* originalPlanes after addBoundingBoxPlanes: the input, then the six closure planes
AddBoundingBoxPlanes(planes, bbox) == planes \o BoxPlanes(bbox)

\* index of the first group whose first member is parallel to plane; 0 if none
RECURSIVE FindGroup(_, _, _)
FindGroup(groups, plane, g) ==
    IF g > Len(groups) THEN 0
    ELSE IF ArePlanesParallel(plane, groups[g].planes[1].plane) THEN g
    ELSE FindGroup(groups, plane, g + 1)

\* one iteration of the loop of classifyPlanes
ClassifyOne(groups, contourPlane) ==
    LET g == FindGroup(groups, contourPlane.plane, 1)
    IN  IF g # 0
        THEN [groups EXCEPT ![g].planes = Append(@, contourPlane)]
        ELSE Append(groups,
                    [normal |-> << contourPlane.plane.a, contourPlane.plane.b,
                                   contourPlane.plane.c >>,
                     planes |-> << contourPlane >>])

RECURSIVE ClassifyFrom(_, _, _)
ClassifyFrom(groups, planes, i) ==
    IF i > Len(planes) THEN groups
    ELSE ClassifyFrom(ClassifyOne(groups, planes[i]), planes, i + 1)

ClassifyPlanes(planes) == ClassifyFrom(<<>>, planes, 1)

----------------------------------------------------------------------------
(* computeParallelPlaneCells, createSlabCell *)

\* glm::cross(x, y) on triples of float values
Cross(x, y) ==
    << XSub(XMul(x[2], y[3]), XMul(y[2], x[3])),
       XSub(XMul(x[3], y[1]), XMul(y[3], x[1])),
       XSub(XMul(x[1], y[2]), XMul(y[1], x[2])) >>

\* bit b (1, 2 or 4) of i is set
BitSet(i, b) == (i \div b) % 2 = 1

\* one coordinate of vertex i (0..7) of the slab, from the same coordinate of
\* tangent, bitangent and normal: +-tangent*size +- bitangent*size + normal*offset,
\* the tangent sign from bit 1, the bitangent sign from bit 2
SlabCoord(i, t, bt, n, off) ==
    XAdd(XAdd(XMul(IF BitSet(i, 1) THEN t ELSE XNeg(t), F(SlabSize)),
              XMul(IF BitSet(i, 2) THEN bt ELSE XNeg(bt), F(SlabSize))),
         XMul(n, off))

SlabPosition(i, tangent, bitangent, normal, off) ==
    Vertex(SlabCoord(i, tangent[1], bitangent[1], normal[1], off),
           SlabCoord(i, tangent[2], bitangent[2], normal[2], off),
           SlabCoord(i, tangent[3], bitangent[3], normal[3], off))

\* tangent = cross(normal, (0, 1, 0))
Tangent(normal) == Cross(normal, << F(0), F(1), F(0) >>)

Normal(plane) == << F(plane.a), F(plane.b), F(plane.c) >>

\* the 8 vertices of the slab, vertex i = 0..7 at index i + 1; its offset
\* along the normal is bottom.d when bit 4 of i is set, top.d otherwise
SlabVertices(bottom, top, normal, tangent, bitangent) ==
    [n \in 1..8 |->
        SlabPosition(n - 1, tangent, bitangent, normal,
                     IF BitSet(n - 1, 4) THEN F(bottom.d) ELSE F(top.d))]

Edge(v1, v2) == [vertexIndex1 |-> v1, vertexIndex2 |-> v2]

\* the three edges pushed by iteration i (0..3) of the edge loop
SlabEdgesAt(i) ==
    << Edge(i, (i + 1) % 4),
       Edge(i + 4, ((i + 1) % 4) + 4),
       Edge(i, i + 4) >>

SlabEdges == SlabEdgesAt(0) \o SlabEdgesAt(1) \o SlabEdgesAt(2) \o SlabEdgesAt(3)

\* the cell createSlabCell pushes onto cells; bitangent = cross(normal, tangent)
CreateSlabCell(bottom, top) ==
    [vertices       |-> SlabVertices(bottom, top, Normal(bottom),
                                     Tangent(Normal(bottom)),
                                     Cross(Normal(bottom), Tangent(Normal(bottom)))),
     edges          |-> SlabEdges,
     boundaryPlanes |-> << bottom, top >>]

\* std::sort by a.plane.d < b.plane.d; on these short ranges an insertion sort,
\* which leaves planes of equal d in their order
RECURSIVE InsertByD(_, _)
InsertByD(sorted, cp) ==
    IF sorted = <<>> THEN << cp >>
    ELSE IF cp.plane.d < sorted[Len(sorted)].plane.d
         THEN Append(InsertByD(SubSeq(sorted, 1, Len(sorted) - 1), cp),
                     sorted[Len(sorted)])
         ELSE Append(sorted, cp)

RECURSIVE SortByD(_)
SortByD(planes) ==
    IF planes = <<>> THEN <<>>
    ELSE InsertByD(SortByD(SubSeq(planes, 1, Len(planes) - 1)), planes[Len(planes)])

\* the same with the size test off by one: groups of two members are skipped
GroupSlabCellsFromThree(group) ==
    IF Len(group.planes) < 3 THEN <<>>
    ELSE LET sortedPlanes == SortByD(group.planes)
         IN  [i \in 1..(Len(sortedPlanes) - 1) |->
                 CreateSlabCell(sortedPlanes[i].plane, sortedPlanes[i + 1].plane)]

\* the slab cells of one group: none below two members, else one per
\* consecutive pair of the sorted planes
GroupSlabCells(group) ==
    IF Len(group.planes) < 2 THEN <<>>
    ELSE LET sortedPlanes == SortByD(group.planes)
         IN  [i \in 1..(Len(sortedPlanes) - 1) |->
                 CreateSlabCell(sortedPlanes[i].plane, sortedPlanes[i + 1].plane)]

\* the cells computeParallelPlaneCells appends, group after group
ComputeParallelPlaneCells(groups) ==
    Concat([g \in 1..Len(groups) |-> GroupSlabCells(groups[g])])

----------------------------------------------------------------------------
(* computePlaneIntersection, computeDistance *)

\* glm::mat3 A(p1.a, p1.b, p1.c, p2.a, ...): the nine values fill the matrix
\* column by column, so column i of A is the normal of plane i
Mat3(q1, q2, q3) == << Normal(q1), Normal(q2), Normal(q3) >>

\* m[i][j] of a glm::mat3: component j of column i, both from 0
At(m, i, j) == m[i + 1][j + 1]

\* m[a][b] * m[c][d] - m[e][f] * m[g][h]
Minor(m, a, b, c, d, e, f, g, h) ==
    XSub(XMul(At(m, a, b), At(m, c, d)), XMul(At(m, e, f), At(m, g, h)))

\* the determinant as glm::inverse computes it
Determinant(m) ==
    XAdd(XSub(XMul(At(m, 0, 0), Minor(m, 1, 1, 2, 2, 2, 1, 1, 2)),
              XMul(At(m, 1, 0), Minor(m, 0, 1, 2, 2, 2, 1, 0, 2))),
         XMul(At(m, 2, 0), Minor(m, 0, 1, 1, 2, 1, 1, 0, 2)))

\* glm::inverse(m): the cofactors times 1 / determinant; the determinant is
\* not tested, so a singular m gives infinities and NaNs
InverseWith(m, OneOverDeterminant) ==
    << << XMul(Minor(m, 1, 1, 2, 2, 2, 1, 1, 2), OneOverDeterminant),
          XMul(XNeg(Minor(m, 0, 1, 2, 2, 2, 1, 0, 2)), OneOverDeterminant),
          XMul(Minor(m, 0, 1, 1, 2, 1, 1, 0, 2), OneOverDeterminant) >>,
       << XMul(XNeg(Minor(m, 1, 0, 2, 2, 2, 0, 1, 2)), OneOverDeterminant),
          XMul(Minor(m, 0, 0, 2, 2, 2, 0, 0, 2), OneOverDeterminant),
          XMul(XNeg(Minor(m, 0, 0, 1, 2, 1, 0, 0, 2)), OneOverDeterminant) >>,
       << XMul(Minor(m, 1, 0, 2, 1, 2, 0, 1, 1), OneOverDeterminant),
          XMul(XNeg(Minor(m, 0, 0, 2, 1, 2, 0, 0, 1)), OneOverDeterminant),
          XMul(Minor(m, 0, 0, 1, 1, 1, 0, 0, 1), OneOverDeterminant) >> >>

Inverse(m) == InverseWith(m, XRecip(Determinant(m)))

\* glm's mat3 * vec3: component j is the sum over i of m[i][j] * v[i]
MatVec(m, v) ==
    [j \in 1..3 |-> XAdd(XAdd(XMul(m[1][j], v[1]), XMul(m[2][j], v[2])),
                         XMul(m[3][j], v[3]))]

\* glm::inverse(A) * b with b = (-p1.d, -p2.d, -p3.d)
ComputePlaneIntersection(q1, q2, q3) ==
    MatVec(Inverse(Mat3(q1, q2, q3)),
           << XNeg(F(q1.d)), XNeg(F(q2.d)), XNeg(F(q3.d)) >>)

\* plane.a * point.x + plane.b * point.y + plane.c * point.z + plane.d
ComputeDistance(plane, point) ==
    XAdd(XAdd(XAdd(XMul(F(plane.a), point[1]), XMul(F(plane.b), point[2])),
              XMul(F(plane.c), point[3])),
         F(plane.d))

----------------------------------------------------------------------------
(* findIntersectionVertices, createCellFromIntersection *)

\* isValid: no plane of the set has computeDistance(plane, intersection) > 0.0001f
IsValid(planes, intersection) ==
    \A n \in 1..Len(planes) :
        ~XGtEps(ComputeDistance(planes[n].plane, intersection), DistEpsilonInv)

\* the end of the innermost loop's body: what it pushes onto
\* intersectionVertices, the intersection tagged with its three plane indices
\* when it is valid
PushIfValid(planes, i, j, k, intersection) ==
    IF IsValid(planes, intersection)
    THEN << [Vertex(intersection[1], intersection[2], intersection[3])
               EXCEPT !.associatedPlanes = << i, j, k >>] >>
    ELSE <<>>

\* the body of the innermost loop for the triple (i, j, k), 0-based: what it
\* pushes onto intersectionVertices.  glm::inverse never throws, so the catch
\* is never entered.
TripleStep(planes, i, j, k) ==
    IF \/ ArePlanesParallel(planes[i + 1].plane, planes[j + 1].plane)
       \/ ArePlanesParallel(planes[j + 1].plane, planes[k + 1].plane)
       \/ ArePlanesParallel(planes[i + 1].plane, planes[k + 1].plane)
    THEN <<>>
    ELSE PushIfValid(planes, i, j, k,
                     ComputePlaneIntersection(planes[i + 1].plane,
                         planes[j + 1].plane, planes[k + 1].plane))

\* for (k = j + 1; k < planes.size(); ++k), from k on
RECURSIVE LoopK(_, _, _, _)
LoopK(planes, i, j, k) ==
    IF k >= Len(planes) THEN <<>>
    ELSE TripleStep(planes, i, j, k) \o LoopK(planes, i, j, k + 1)

\* for (j = i + 1; j < planes.size() - 1; ++j), from j on
RECURSIVE LoopJ(_, _, _)
LoopJ(planes, i, j) ==
    IF j >= Len(planes) - 1 THEN <<>>
    ELSE LoopK(planes, i, j, j + 1) \o LoopJ(planes, i, j + 1)

\* for (i = 0; i < planes.size() - 2; ++i), from i on: intersectionVertices
\* after the three nested loops, over planes.size() >= 3
RECURSIVE LoopI(_, _)
LoopI(planes, i) ==
    IF i >= Len(planes) - 2 THEN <<>>
    ELSE LoopJ(planes, i, i + 1) \o LoopI(planes, i + 1)

\* std::set_intersection of two sorted, duplicate-free index lists
SharedPlanes(v, w) == Range(v.associatedPlanes) \cap Range(w.associatedPlanes)

\* the edges the inner loop of createCellFromIntersection pushes for vertex
\* i (0-based): one to every later vertex j that shares at least two planes
EdgesFrom(cellVertices, i) ==
    SelectSeq([n \in 1..(Len(cellVertices) - 1 - i) |-> Edge(i, i + n)],
              LAMBDA e : Cardinality(SharedPlanes(cellVertices[e.vertexIndex1 + 1],
                                                  cellVertices[e.vertexIndex2 + 1])) >= 2)

\* the edges of createCellFromIntersection, in the order of its two loops
CellEdges(cellVertices) ==
    Concat([n \in 1..Len(cellVertices) |-> EdgesFrom(cellVertices, n - 1)])

\* the cell createCellFromIntersection pushes onto cells
CreateCellFromIntersection(cellVertices, boundaryPlanes) ==
    [vertices       |-> cellVertices,
     edges          |-> CellEdges(cellVertices),
     boundaryPlanes |-> boundaryPlanes]

\* the end of findIntersectionVertices: one cell when some vertex was
\* accepted, none otherwise
CellsFromVertices(planes, intersectionVertices) ==
    IF intersectionVertices # <<>>
    THEN << CreateCellFromIntersection(intersectionVertices,
                [n \in 1..Len(planes) |-> planes[n].plane]) >>
    ELSE <<>>

\* the cells findIntersectionVertices appends
FindIntersectionVertices(planes) ==
    CellsFromVertices(planes, LoopI(planes, 0))

----------------------------------------------------------------------------
(* computeNonParallelPlaneCells, computeCells *)

\* isNonParallel: the plane is parallel to the first member of no group
IsNonParallel(plane, groups) ==
    \A g \in 1..Len(groups) : ~ArePlanesParallel(plane, groups[g].planes[1].plane)

\* the planes the first loop of computeNonParallelPlaneCells pushes onto
\* nonParallelPlanes, in the order of originalPlanes
NewNonParallelPlanes(planes, groups) ==
    SelectSeq(planes, LAMBDA cp : IsNonParallel(cp.plane, groups))

\* the cells computeNonParallelPlaneCells appends, given nonParallelPlanes
\* after its first loop
NonParallelCells(nonParallel) ==
    IF Len(nonParallel) < 3 THEN <<>> ELSE FindIntersectionVertices(nonParallel)

----------------------------------------------------------------------------
(* Inputs *)

V3(x, y, z) == Vertex(x, y, z)

\* The contour planes the constructor's inputs are drawn from: planes parallel
\* to a closure plane, planes parallel to each other, planes whose normals
\* agree only up to the sign of a component, planes with no parallel partner,
\* and a record whose plane has a zero normal.
ContourCatalog ==
    << ContourPlane(Plane(0, 0, 1, 0),
                    << V3(-2, -2, 0), V3(2, -2, 0), V3(2, 2, 0), V3(-2, 2, 0) >>),
       ContourPlane(Plane(0, 0, 2, -4), << V3(-2, 0, 2), V3(2, 2, 2) >>),
       ContourPlane(Plane(1, 1, 0, 0), << V3(2, -2, 0), V3(-2, 2, 2) >>),
       ContourPlane(Plane(1, -1, 0, 0), << V3(2, 2, 0), V3(-2, -2, -2) >>),
       ContourPlane(Plane(-1, -1, 0, 2), << V3(2, 0, 0), V3(0, 2, 4) >>),
       ContourPlane(Plane(1, 0, 1, 0), << V3(2, 0, -2), V3(-2, 2, 2) >>),
       ContourPlane(Plane(0, 1, 1, 0), << V3(0, 2, -2), V3(0, -2, 2) >>),
       ContourPlane(Plane(0, 0, 0, 0), << V3(0, 0, 0) >>),
       ContourPlane(Plane(2, 0, 0, -4), << V3(2, 0, 0), V3(2, 2, 2) >>) >>

\* the plane lists handed to the constructor
Inputs ==
    UNION { { [n \in 1..len |-> ContourCatalog[f[n]]] :
                f \in [1..len -> 1..Len(ContourCatalog)] } :
            len \in 1..MaxInputPlanes }

\* The planes the direct calls of findIntersectionVertices are drawn from: the
\* six closure planes of the box [-1,1]^3 (inward normals, d = 1), three planes
\* through the z-axis, and further planes, one of them in general position.
CubePlanes ==
    << Plane(1, 0, 0, 1), Plane(-1, 0, 0, 1), Plane(0, 1, 0, 1),
       Plane(0, -1, 0, 1), Plane(0, 0, 1, 1), Plane(0, 0, -1, 1) >>

ZAxisPlanes == << Plane(1, 0, 0, 0), Plane(0, 1, 0, 0), Plane(1, 1, 0, 0) >>

FIVCatalog ==
    CubePlanes \o ZAxisPlanes \o
    << Plane(0, 0, 1, 0), Plane(1, 1, 0, -1), Plane(1, 2, 3, -1) >>

\* the longest plane list handed to findIntersectionVertices directly
MaxFIVPlanes == 6

RECURSIVE SortedSeq(_)
SortedSeq(S) ==
    IF S = {} THEN <<>>
    ELSE LET m == MinOf(S) IN << m >> \o SortedSeq(S \ {m})

\* the sub-lists of FIVCatalog of 3..MaxFIVPlanes planes, as contour planes
FIVInputs ==
    { [n \in 1..Cardinality(S) |-> ContourPlane(FIVCatalog[SortedSeq(S)[n]], <<>>)] :
        S \in { T \in SUBSET (1..Len(FIVCatalog)) :
                  Cardinality(T) >= 3 /\ Cardinality(T) <= MaxFIVPlanes } }

\* the arguments of arePlanesParallel
ParPlanes ==
    { Plane(a, b, c, d) : a \in -MaxCoef..MaxCoef, b \in -MaxCoef..MaxCoef,
                          c \in -MaxCoef..MaxCoef, d \in 0..1 }

NoPlane == Plane(0, 0, 0, 0)

----------------------------------------------------------------------------
(* The partitioner: constructed on an input, then computeCells() *)

Init ==
    /\ \E input \in Inputs :
          originalPlanes = AddBoundingBoxPlanes(input, ComputeTightBoundingBox(input))
    /\ parallelGroups = ClassifyPlanes(originalPlanes)
    /\ nonParallelPlanes = <<>>
    /\ cells = <<>>
    /\ calls = 0
    /\ firstResult = <<>>
    /\ argPlanes = <<>>
    /\ fivDone = FALSE
    /\ p1 = NoPlane
    /\ p2 = NoPlane
    /\ parResult = <<>>

\* computeCells(): computeParallelPlaneCells(), computeNonParallelPlaneCells(),
\* return cells
ComputeCells ==
    /\ calls < MaxCalls
    /\ nonParallelPlanes' = nonParallelPlanes \o
                            NewNonParallelPlanes(originalPlanes, parallelGroups)
    /\ cells' = cells \o ComputeParallelPlaneCells(parallelGroups)
                      \o NonParallelCells(nonParallelPlanes')
    /\ firstResult' = IF calls = 0 THEN cells' ELSE firstResult
    /\ calls' = calls + 1
    /\ UNCHANGED <<originalPlanes, parallelGroups, argPlanes, fivDone, p1, p2,
                   parResult>>

Next == ComputeCells

Spec == Init /\ [][Next]_vars

----------------------------------------------------------------------------
(* findIntersectionVertices called on a plane list of its own *)

InitFIV ==
    /\ argPlanes \in FIVInputs
    /\ fivDone = FALSE
    /\ cells = <<>>
    /\ originalPlanes = <<>>
    /\ parallelGroups = <<>>
    /\ nonParallelPlanes = <<>>
    /\ calls = 0
    /\ firstResult = <<>>
    /\ p1 = NoPlane
    /\ p2 = NoPlane
    /\ parResult = <<>>

CallFindIntersectionVertices ==
    /\ ~fivDone
    /\ cells' = cells \o FindIntersectionVertices(argPlanes)
    /\ fivDone' = TRUE
    /\ UNCHANGED <<originalPlanes, parallelGroups, nonParallelPlanes, calls,
                   firstResult, argPlanes, p1, p2, parResult>>

NextFIV == CallFindIntersectionVertices

SpecFIV == InitFIV /\ [][NextFIV]_vars

----------------------------------------------------------------------------
(* arePlanesParallel called on a pair of planes *)

Negated(p) == Plane(-p.a, -p.b, -p.c, -p.d)

InitParallel ==
    /\ p1 \in ParPlanes
    /\ p2 \in ParPlanes
    /\ parResult = <<>>
    /\ argPlanes = <<>>
    /\ fivDone = FALSE
    /\ cells = <<>>
    /\ originalPlanes = <<>>
    /\ parallelGroups = <<>>
    /\ nonParallelPlanes = <<>>
    /\ calls = 0
    /\ firstResult = <<>>

\* the calls arePlanesParallel(p1, p2), (p2, p1) and (-p1, p2)
CallArePlanesParallel ==
    /\ parResult = <<>>
    /\ parResult' = << ArePlanesParallel(p1, p2), ArePlanesParallel(p2, p1),
                       ArePlanesParallel(Negated(p1), p2) >>
    /\ UNCHANGED <<originalPlanes, parallelGroups, nonParallelPlanes, cells, calls,
                   firstResult, argPlanes, fivDone, p1, p2>>

NextParallel == CallArePlanesParallel

SpecParallel == InitParallel /\ [][NextParallel]_vars

----------------------------------------------------------------------------
(* Properties *)

\* the input handed to the constructor, and the six closure planes after it
InputPlanes == SubSeq(originalPlanes, 1, Len(originalPlanes) - 6)
ClosurePlanes == SubSeq(originalPlanes, Len(originalPlanes) - 5, Len(originalPlanes))

\* the number of edges of a cell that end at vertex index v
Degree(cell, v) ==
    Cardinality({e \in 1..Len(cell.edges) :
                    cell.edges[e].vertexIndex1 = v \/ cell.edges[e].vertexIndex2 = v})

\* the determinant of the three normals, over the integers
IntDet(q1, q2, q3) ==
      q1.a * (q2.b * q3.c - q2.c * q3.b)
    - q1.b * (q2.a * q3.c - q2.c * q3.a)
    + q1.c * (q2.a * q3.b - q2.b * q3.a)

\* the cross product of two normals is zero: same or opposite direction
SameDirection(q1, q2) ==
    /\ q1.b * q2.c - q1.c * q2.b = 0
    /\ q1.c * q2.a - q1.a * q2.c = 0
    /\ q1.a * q2.b - q1.b * q2.a = 0

\* x >= -1/inv  (false when x is NaN)
XGeMinusEps(x, inv) ==
    CASE x.k = "nan" -> FALSE
      [] x.k = "inf" -> ~x.neg
      [] OTHER       -> x.num * inv >= -x.den

IsFinite(v) == v.x.k = "fin" /\ v.y.k = "fin" /\ v.z.k = "fin"

\* a slab cell: its boundary planes are a bottom and a top
IsSlabCell(c) == Len(c.boundaryPlanes) = 2

GroupPlanes(group) == {group.planes[n].plane : n \in 1..Len(group.planes)}

\* the slab cells among cells whose bottom plane is a member of the group
SlabCellsOf(group) ==
    SelectSeq(cells, LAMBDA c : IsSlabCell(c) /\ c.boundaryPlanes[1] \in GroupPlanes(group))

RECURSIVE Repeated(_, _)
Repeated(s, k) == IF k = 0 THEN <<>> ELSE s \o Repeated(s, k - 1)

\* C1: handed the six closure planes of the box [-1,1]^3 and nothing else,
\* findIntersectionVertices and createCellFromIntersection leave one cell with
\* exactly 8 vertices, each tagged with exactly 3 plane indices, and exactly 12
\* edges, every vertex joined to exactly 3 others.
C1_CubeRecovered ==
    (fivDone /\ argPlanes = [n \in 1..6 |-> ContourPlane(CubePlanes[n], <<>>)]) =>
        /\ Len(cells) = 1
        /\ Len(cells[1].vertices) = 8
        /\ \A v \in 1..8 :
              /\ Cardinality(Range(cells[1].vertices[v].associatedPlanes)) = 3
              /\ Degree(cells[1], v - 1) = 3
        /\ Len(cells[1].edges) = 12

\* C2: after any number of computeCells() calls, every parallel group of N >= 2
\* members has contributed exactly N - 1 slab cells per call and every group of
\* one member none; every slab cell has exactly 8 vertices and 12 edges, and its
\* boundary planes are a bottom and a top of the same group, bottom.d <= top.d,
\* with no member of the group strictly between them.
C2_SlabCellsPerGroup ==
    \A g \in 1..Len(parallelGroups) :
        LET group == parallelGroups[g]
            N     == Len(group.planes)
            slabs == SlabCellsOf(group)
        IN  /\ Len(slabs) = calls * (IF N >= 2 THEN N - 1 ELSE 0)
            /\ \A n \in 1..Len(slabs) :
                  /\ Len(slabs[n].vertices) = 8
                  /\ Len(slabs[n].edges) = 12
                  /\ slabs[n].boundaryPlanes[2] \in GroupPlanes(group)
                  /\ slabs[n].boundaryPlanes[1].d <= slabs[n].boundaryPlanes[2].d
                  /\ \A q \in GroupPlanes(group) :
                        ~(/\ slabs[n].boundaryPlanes[1].d < q.d
                          /\ q.d < slabs[n].boundaryPlanes[2].d)

\* C2's case: computeCells() has run on groups of two members and of three or more
C2_Witness ==
    /\ calls >= 1
    /\ \E g \in 1..Len(parallelGroups) : Len(parallelGroups[g].planes) >= 3
    /\ \E g \in 1..Len(parallelGroups) : Len(parallelGroups[g].planes) = 2
    /\ \E g \in 1..Len(parallelGroups) : Len(parallelGroups[g].planes) = 1
    /\ \E c \in Range(cells) : IsSlabCell(c)

\* C3: findIntersectionVertices emits no vertex for a triple of pairwise
\* non-parallel planes whose 3x3 coefficient matrix is singular.
C3_SingularTripleSkipped ==
    fivDone =>
        \A i, j, k \in 1..Len(argPlanes) :
            (/\ i < j
             /\ j < k
             /\ ~ArePlanesParallel(argPlanes[i].plane, argPlanes[j].plane)
             /\ ~ArePlanesParallel(argPlanes[j].plane, argPlanes[k].plane)
             /\ ~ArePlanesParallel(argPlanes[i].plane, argPlanes[k].plane)
             /\ IntDet(argPlanes[i].plane, argPlanes[j].plane, argPlanes[k].plane) = 0)
            => \A c \in Range(cells) : \A v \in Range(c.vertices) :
                  v.associatedPlanes # << i - 1, j - 1, k - 1 >>

\* C4: every vertex findIntersectionVertices accepts satisfies
\* a*x + b*y + c*z + d >= -1e-4 for every plane of the set it was given.  Stated
\* for the accepted vertices with finite coordinates, so that a violation does
\* not rest on a vertex of a singular triple.
C4_AcceptedVerticesFeasible ==
    fivDone =>
        \A c \in Range(cells) : \A v \in Range(c.vertices) :
            IsFinite(v) =>
                \A n \in 1..Len(argPlanes) :
                    XGeMinusEps(ComputeDistance(argPlanes[n].plane, << v.x, v.y, v.z >>),
                                DistEpsilonInv)

\* C5: arePlanesParallel(p, q) = arePlanesParallel(q, p), and negating all
\* four coefficients of p does not change arePlanesParallel(p, q).
C5_SymmetricSignInvariant ==
    parResult # <<>> =>
        /\ parResult[1] = parResult[2]
        /\ parResult[3] = parResult[1]

\* C5's case: a parallel verdict on two planes whose non-zero normals point in
\* opposite directions
C5_Witness ==
    /\ parResult # <<>>
    /\ parResult[1]
    /\ p1.a # 0
    /\ p2.a = -p1.a
    /\ p2.b = -p1.b
    /\ p2.c = -p1.c

\* C6: after k computeCells() calls on one instance, cells is the first call's
\* result repeated k times, and the planes and groups are those of construction.
C6_FirstResultRepeated ==
    /\ cells = Repeated(firstResult, calls)
    /\ parallelGroups = ClassifyPlanes(originalPlanes)

\* C7: after computeCells(), nonParallelPlanes is exactly the planes of
\* originalPlanes that are the only member of their group, in order.
C7_NonParallelAreSingletons ==
    calls = 1 =>
        nonParallelPlanes =
            SelectSeq(originalPlanes,
                      LAMBDA cp : \E g \in 1..Len(parallelGroups) :
                                     parallelGroups[g].planes = << cp >>)

\* C8: in every group, every member's normal has the same or the opposite
\* direction as the first member's normal.
C8_GroupMembersSameDirection ==
    \A g \in 1..Len(parallelGroups) :
        \A q \in GroupPlanes(parallelGroups[g]) :
            SameDirection(q, parallelGroups[g].planes[1].plane)

\* C9: every edge of every slab cell joins two vertices whose indices differ in
\* exactly one of bit 1 (tangent sign), bit 2 (bitangent sign), bit 4 (offset).
C9_SlabEdgesAlongOneAxis ==
    \A c \in Range(cells) :
        IsSlabCell(c) =>
            \A e \in Range(c.edges) :
                Cardinality({b \in {1, 2, 4} :
                    BitSet(e.vertexIndex1, b) # BitSet(e.vertexIndex2, b)}) = 1

\* C10: every vertex of the input lies strictly inside each of the six closure
\* planes, n.v + d > 0, and the expanded box has min <= max on every axis.
C10_ClosureStrictlyOutside ==
    /\ \A v \in AllVertices(InputPlanes) :
          \A n \in 1..6 :
              LET q == ClosurePlanes[n].plane
              IN  q.a * v.x + q.b * v.y + q.c * v.z + q.d > 0
    /\ \A n \in {1, 3, 5} :
          -ClosurePlanes[n].plane.d <= ClosurePlanes[n + 1].plane.d

=============================================================================
